---- MODULE Spec2Model ----
(***************************************************************************)
(* A model of lt_quiz's command registry (stdx/src/ir.rs), of its SQLite   *)
(* question store (lt_quiz/src/db/sqlite.rs) and of the per-State question *)
(* cache (lt_quiz/src/state.rs).                                           *)
(*                                                                         *)
(* Strings the code inspects character by character (type names, phrases)  *)
(* are sequences of one-character strings.  An Option is a sequence of     *)
(* length at most one: None is <<>>, Some(v) is <<v>>.  A Result is a      *)
(* record with the field ok.                                               *)
(***************************************************************************)
EXTENDS Integers, Sequences, FiniteSets

VARIABLES
    \* ---- Builder::new on its own (SpecName)
    ident,      \* the handler's type name, std::any::type_name::<F>()
    phrase,     \* Option: the phrase Builder::new derived from it
    \* ---- array_push on its own (SpecPush)
    this,       \* the array handed to array_push
    item,       \* Option: the element handed to array_push
    pushed,     \* Option: the array array_push returned
    \* ---- the registry (Spec)
    cb,         \* Option: the CommandBuilder (None before with_state and after build)
    pending,    \* Option: a Builder under construction, not yet appended
    decl,       \* history: the arg/properties calls made on the pending Builder
    appended,   \* history: one entry per call of command, in call order
    agg,        \* Option: the CommandsAggregator build produced
    request,    \* Option: the last command dispatched to a routine
    invoked,    \* the handler invocations the last dispatch made
    ret,        \* Option: what the routine returned to the dispatcher
    given,      \* history: the state handed to with_state
    \* ---- the question store (SpecDb, SpecState)
    db,         \* the three SQLite tables
    listed,     \* Option: the last questions_list call and what it printed
    lastOp,     \* the last operation on the store or on a State
    \* ---- State and its cache (SpecState)
    handles,    \* the State values alive: each is an Rc pointer to a RawState
    raws,       \* the RawStates: raws[r].cache is the AnyMap slot Vec<Question>
    answer,     \* Option: the Result the last State::questions returned
    queried,    \* whether the last State::questions ran find_questions
    firstOk     \* history: Option, the list the first successful call returned

nameVars == <<ident, phrase>>
pushVars == <<this, item, pushed>>
registryVars ==
    <<cb, pending, decl, appended, agg, request, invoked, ret, given>>
dbVars == <<db, listed, lastOp>>
stateVars == <<handles, raws, answer, queried, firstOk>>
vars == <<nameVars, pushVars, registryVars, dbVars, stateVars>>

None == <<>>
Some(v) == <<v>>
IsSome(o) == Len(o) = 1
Unwrap(o) == o[1]

Range(s) == {s[i] : i \in DOMAIN s}

\* All sequences over S of length lo..hi.
SeqsOf(S, lo, hi) == UNION {[1..n -> S] : n \in lo..hi}

\* The sequences of SeqsOf(S, lo, hi) without a repeated element.
InjectiveSeqs(S, lo, hi) ==
    {s \in SeqsOf(S, lo, hi) : \A i, j \in DOMAIN s : s[i] = s[j] => i = j}

(***************************************************************************)
(* Bounds of the model.                                                    *)
(***************************************************************************)
MaxSegs == 2        \* path segments of a type name (SpecName)
MaxSegLen == 2      \* characters of one path segment (SpecName)
MaxLen == 3         \* length of the array handed to array_push (SpecPush)
MaxCommands == 2    \* calls of command before build (Spec)
MaxDecls == 2       \* arg/properties calls made in one build (Spec)
MaxProps == 2       \* length of the array handed to properties (Spec)
MaxQuestions == 2   \* rows of the table questions (SpecDb, SpecState)
MaxTags == 2        \* tags of one question (SpecDb, SpecState)
MaxFilter == 1      \* length of has_tags and of no_tags (SpecDb, SpecState)
MaxClones == 1      \* clones made of the State (SpecState)

(***************************************************************************)
(* Idle values: what a specification gives the variables of the others.    *)
(***************************************************************************)
NameIdle == ident = <<>> /\ phrase = None
PushIdle == this = <<>> /\ item = None /\ pushed = None
RegistryIdle ==
    /\ cb = None /\ pending = None /\ decl = None /\ appended = <<>>
    /\ agg = None /\ request = None /\ invoked = <<>> /\ ret = None
    /\ given = "idle"
EmptyDb == [questions |-> <<>>, tags |-> <<>>, question_tags |-> <<>>]
DbIdle == db = EmptyDb /\ listed = None /\ lastOp = "idle"
StateIdle ==
    /\ handles = <<>> /\ raws = <<>> /\ answer = None
    /\ queried = FALSE /\ firstOk = None

(***************************************************************************)
(* Builder::new: the phrase of a handler, from its type name               *)
(***************************************************************************)

\* A slip of Builder::new: str::find(':'), the index of the first ':'.
RFindFirst(name) ==
    LET hits == {i \in DOMAIN name : name[i] = ":"}
    IN  IF hits = {} THEN None
        ELSE Some(CHOOSE i \in hits : \A j \in hits : i <= j)

\* str::rfind(':'): the index of the last ':' of name, as an Option.
RFind(name) ==
    LET hits == {i \in DOMAIN name : name[i] = ":"}
    IN  IF hits = {} THEN None
        ELSE Some(CHOOSE i \in hits : \A j \in hits : j <= i)

\* str::split('_'): the parts between the separators; one (empty) part for
\* the empty string.
RECURSIVE Split(_, _)
Split(s, c) ==
    LET hits == {i \in DOMAIN s : s[i] = c}
    IN  IF hits = {} THEN <<s>>
        ELSE LET i == CHOOSE k \in hits : \A j \in hits : k <= j
             IN  <<SubSeq(s, 1, i - 1)>> \o Split(SubSeq(s, i + 1, Len(s)), c)

\* Itertools::join(sep): the parts with sep between neighbours.
RECURSIVE Join(_, _)
Join(parts, sep) ==
    IF parts = <<>> THEN <<>>
    ELSE IF Len(parts) = 1 THEN parts[1]
    ELSE parts[1] \o sep \o Join(Tail(parts), sep)

\* name.rfind(':').map_or(name, |tail| &name[tail + 1..]).split('_').join(".")
TypeNamePhrase(name) ==
    LET found == RFind(name)
        tail == IF IsSome(found)
                THEN SubSeq(name, Unwrap(found) + 1, Len(name))
                ELSE name
    IN  Join(Split(tail, "_"), <<".">>)

\* A map (HashMap) is a function on the set of its keys.
EmptyMap == [k \in {} |-> {}]
MapInsert(m, k, v) == [x \in DOMAIN m \cup {k} |-> IF x = k THEN v ELSE m[x]]

\* wca::grammar::settings::ValueDescription
ValueDescription(hint, kind, optional) ==
    [hint |-> hint, kind |-> kind, optional |-> optional]

\* Builder::new: wca::Command::former().phrase(name).form() has no subjects
\* and no properties.
BuilderNew(handler) ==
    [handler |-> handler,
     command |-> [phrase |-> TypeNamePhrase(handler),
                  subjects |-> <<>>,
                  properties |-> EmptyMap]]

\* The type names of SpecName: paths of 1..MaxSegs segments joined by "::",
\* each segment 1..MaxSegLen characters, and the names the documentation uses.
SegChars == {"q", "l", "_"}
Segments == SeqsOf(SegChars, 1, MaxSegLen)
PathSep == <<":", ":">>
Paths == {Join(p, PathSep) : p \in SeqsOf(Segments, 1, MaxSegs)}

NameExport == <<"e", "x", "p", "o", "r", "t">>
NameQuestionsList ==
    <<"q", "u", "e", "s", "t", "i", "o", "n", "s", "_", "l", "i", "s", "t">>
NameQuestionsAbout ==
    <<"q", "u", "e", "s", "t", "i", "o", "n", "s", "_", "a", "b", "o", "u", "t">>
NameQualified ==
    <<"c", "r", "a", "t", "e", ":", ":", "c", "o", "m", "m", "a", "n", "d", "s",
      ":", ":">> \o NameQuestionsList
PhraseExport == NameExport
PhraseQuestionsList ==
    <<"q", "u", "e", "s", "t", "i", "o", "n", "s", ".", "l", "i", "s", "t">>
PhraseQuestionsAbout ==
    <<"q", "u", "e", "s", "t", "i", "o", "n", "s", ".", "a", "b", "o", "u", "t">>
DocumentedNames ==
    {NameExport, NameQuestionsList, NameQuestionsAbout, NameQualified}

TypeNames == Paths \cup DocumentedNames

InitName ==
    /\ ident \in TypeNames
    /\ phrase = None
    /\ PushIdle /\ RegistryIdle /\ DbIdle /\ StateIdle

\* Builder::new(handler) for a handler of type name ident; the phrase is kept.
DerivePhrase ==
    /\ phrase = None
    /\ phrase' = Some(BuilderNew(ident).command.phrase)
    /\ UNCHANGED <<ident, pushVars, registryVars, dbVars, stateVars>>

NextName == DerivePhrase

SpecName == InitName /\ [][NextName]_vars

(***************************************************************************)
(* array_push                                                              *)
(***************************************************************************)

Uninit == "uninit"

\* A slip of array_push: the item is written over slot N - 1 (ptr.add(N - 1)),
\* and slot N is left as MaybeUninit::uninit() made it.
ArrayPushOverLast(array, new) ==
    LET N == Len(array)
        uninit == [i \in 1..(N + 1) |-> Uninit]
        moved == [i \in 1..(N + 1) |-> IF i <= N THEN array[i] ELSE uninit[i]]
    IN  IF N = 0 THEN <<new>> ELSE [moved EXCEPT ![N] = new]

\* fn array_push<const N: usize, T>(this: [T; N], item: T) -> [T; N + 1]
\* Slot i of the code (0-based) is slot i + 1 here.
ArrayPush(array, new) ==
    LET N == Len(array)
        \* MaybeUninit::<[T; N + 1]>::uninit()
        uninit == [i \in 1..(N + 1) |-> Uninit]
        \* (ptr as *mut [T; N]).write(this)
        moved == [i \in 1..(N + 1) |-> IF i <= N THEN array[i] ELSE uninit[i]]
        \* (ptr.add(N) as *mut [T; 1]).write([item])
        written == [moved EXCEPT ![N + 1] = new]
    IN  \* uninit.assume_init()
        written

\* Move-only elements: each is one object, so an array holds no object twice.
Markers == 1..(MaxLen + 2)

InitPush ==
    /\ this \in InjectiveSeqs(Markers, 0, MaxLen)
    /\ item = None
    /\ pushed = None
    /\ NameIdle /\ RegistryIdle /\ DbIdle /\ StateIdle

\* One call array_push(this, m), m an object the array does not hold.
Push(m) ==
    /\ pushed = None
    /\ m \notin Range(this)
    /\ item' = Some(m)
    /\ pushed' = Some(ArrayPush(this, m))
    /\ UNCHANGED <<this, nameVars, registryVars, dbVars, stateVars>>

NextPush == \E m \in Markers : Push(m)

SpecPush == InitPush /\ [][NextPush]_vars

(***************************************************************************)
(* The registry: CommandBuilder, Builder, build and the adapted handlers   *)
(***************************************************************************)

\* The handlers the integrator registers, by type name.  The last two are
\* different functions whose names give one phrase.
FnExport ==
    <<"c", "o", "m", "m", "a", "n", "d", "s", ":", ":">> \o NameExport
FnQuestionsList ==
    <<"c", "o", "m", "m", "a", "n", "d", "s", ":", ":">> \o NameQuestionsList
FnOtherQuestionsList ==
    <<"o", "t", "h", "e", "r", ":", ":">> \o NameQuestionsList
HandlerFns == {FnExport, FnQuestionsList, FnOtherQuestionsList}

\* The values of T handed to with_state.
SharedStates == {"state1", "state2"}

\* What the integrator declares: positional arguments (hint, wca::Type) and
\* Property values (name, hint, tag).
ArgPool == {[hint |-> "path", tag |-> "Path"], [hint |-> "count", tag |-> "Number"]}
PropertyPool ==
    {[name |-> "has_tags", hint |-> "include", tag |-> "List"],
     [name |-> "has_tags", hint |-> "only", tag |-> "String"],
     [name |-> "no_tags", hint |-> "exclude", tag |-> "List"]}

\* CommandBuilder::with_state
WithState(state) == [state |-> state, commands |-> <<>>, handlers |-> <<>>]

\* A slip of Builder::arg: the argument is marked optional.
BuilderArgOptional(b, hint, tag) ==
    [b EXCEPT !.command.subjects = Append(@, ValueDescription(hint, tag, TRUE))]

\* Builder::arg
BuilderArg(b, hint, tag) ==
    [b EXCEPT !.command.subjects = Append(@, ValueDescription(hint, tag, FALSE))]

\* Builder::properties: the properties are inserted in array order, a later
\* one replacing an earlier one of the same name (HashMap::insert).
RECURSIVE InsertProperties(_, _)
InsertProperties(map, properties) ==
    IF properties = <<>> THEN map
    ELSE LET property == Head(properties)
         IN  InsertProperties(
                 MapInsert(map, property.name,
                           ValueDescription(property.hint, property.tag, TRUE)),
                 Tail(properties))

BuilderProperties(b, properties) ==
    [b EXCEPT !.command.properties = InsertProperties(@, properties)]

\* The closure command builds: it owns the handler and a copy of the state.
Routine(handler, state) == [handler |-> handler, state |-> state]

\* A slip of command: a handler whose phrase is registered already is refused
\* and the builder comes back as it was.
CommandRejectDuplicate(builder, b) ==
    IF \E i \in DOMAIN builder.commands :
           builder.commands[i].phrase = b.command.phrase
    THEN builder
    ELSE [state |-> builder.state,
          handlers |-> ArrayPush(builder.handlers,
                                 <<b.command.phrase,
                                   Routine(b.handler, builder.state)>>),
          commands |-> ArrayPush(builder.commands, b.command)]

\* A slip of command: the handler goes to the front of handlers while the
\* descriptor goes to the end of commands.
CommandTransposed(builder, b) ==
    [state |-> builder.state,
     handlers |-> <<<<b.command.phrase, Routine(b.handler, builder.state)>>>>
                      \o builder.handlers,
     commands |-> ArrayPush(builder.commands, b.command)]

\* CommandBuilder::command, given the Builder into_builder returned
CommandBuilderCommand(builder, b) ==
    LET handler == Routine(b.handler, builder.state)
    IN  [state |-> builder.state,
         handlers |-> ArrayPush(builder.handlers, <<b.command.phrase, handler>>),
         commands |-> ArrayPush(builder.commands, b.command)]

\* The executor's table: HashMap<String, Routine> from the array of pairs,
\* inserted in array order.
RECURSIVE HashMapFrom(_, _)
HashMapFrom(map, pairs) ==
    IF pairs = <<>> THEN map
    ELSE HashMapFrom(MapInsert(map, Head(pairs)[1], Head(pairs)[2]), Tail(pairs))

\* CommandBuilder::build
CommandBuilderBuild(builder) ==
    [grammar |-> builder.commands,
     executor |-> HashMapFrom(EmptyMap, builder.handlers)]

\* format!("{report:?}"): the report's context chain, outermost first, in one
\* string.
DebugFormat(report) == Join([i \in DOMAIN report |-> <<report[i]>>], <<": ">>)

BasicError(text) == [message |-> text]

\* A slip of the adapter: a failed handler is tried a second time.
RoutineCallRetry(routine, args, props, outcome) ==
    LET call == [handler |-> routine.handler, state |-> routine.state,
                 args |-> args, props |-> props]
    IN  IF outcome.ok
        THEN [calls |-> <<call>>, ret |-> [ok |-> TRUE]]
        ELSE [calls |-> <<call, call>>,
              ret |-> [ok |-> FALSE,
                       error |-> BasicError(DebugFormat(outcome.report))]]

\* The routine's body: handler(self.state, args, props).map_err(...).
\* outcome is what the handler returns on this invocation.
RoutineCall(routine, args, props, outcome) ==
    LET call == [handler |-> routine.handler, state |-> routine.state,
                 args |-> args, props |-> props]
    IN  [calls |-> <<call>>,
         ret |-> IF outcome.ok
                 THEN [ok |-> TRUE]
                 ELSE [ok |-> FALSE,
                       error |-> BasicError(DebugFormat(outcome.report))]]

\* The values the dispatcher hands to a routine, and what handlers return.
CommandLines ==
    {[args |-> <<"quiz.toml">>, props |-> EmptyMap],
     [args |-> <<>>, props |-> [k \in {"has_tags"} |-> "rust"]]}
HandlerOutcomes ==
    {[ok |-> TRUE],
     [ok |-> FALSE, report |-> <<"reading quiz.toml", "No such file">>]}

NoDecl == [handler |-> <<>>, args |-> <<>>, names |-> {}, used |-> 0]

\* The declarations made so far in this build.
RECURSIVE UsedIn(_)
UsedIn(history) ==
    IF history = <<>> THEN 0 ELSE Head(history).used + UsedIn(Tail(history))
DeclsUsed == UsedIn(appended) + (IF IsSome(decl) THEN Unwrap(decl).used ELSE 0)

Init ==
    /\ \E state \in SharedStates :
           /\ cb = Some(WithState(state))
           /\ given = state
    /\ pending = None /\ decl = None /\ appended = <<>>
    /\ agg = None /\ request = None /\ invoked = <<>> /\ ret = None
    /\ NameIdle /\ PushIdle /\ DbIdle /\ StateIdle

\* Builder::new(handler), the first step of handler.into_builder()
New(handler) ==
    /\ IsSome(cb)
    /\ pending = None
    /\ Len(Unwrap(cb).commands) < MaxCommands
    /\ pending' = Some(BuilderNew(handler))
    /\ decl' = Some([NoDecl EXCEPT !.handler = handler])
    /\ UNCHANGED <<cb, appended, agg, request, invoked, ret, given>>
    /\ UNCHANGED <<nameVars, pushVars, dbVars, stateVars>>

\* .arg(hint, tag) on the pending Builder
Arg(a) ==
    /\ IsSome(pending)
    /\ DeclsUsed < MaxDecls
    /\ pending' = Some(BuilderArg(Unwrap(pending), a.hint, a.tag))
    /\ decl' = Some([Unwrap(decl) EXCEPT !.args = Append(@, a), !.used = @ + 1])
    /\ UNCHANGED <<cb, appended, agg, request, invoked, ret, given>>
    /\ UNCHANGED <<nameVars, pushVars, dbVars, stateVars>>

\* .properties([...]) on the pending Builder
Properties(properties) ==
    /\ IsSome(pending)
    /\ DeclsUsed + Len(properties) <= MaxDecls
    /\ pending' = Some(BuilderProperties(Unwrap(pending), properties))
    /\ decl' = Some([Unwrap(decl) EXCEPT
                         !.names = @ \cup {p.name : p \in Range(properties)},
                         !.used = @ + Len(properties)])
    /\ UNCHANGED <<cb, appended, agg, request, invoked, ret, given>>
    /\ UNCHANGED <<nameVars, pushVars, dbVars, stateVars>>

\* builder.command(pending)
Command ==
    /\ IsSome(cb)
    /\ IsSome(pending)
    /\ cb' = Some(CommandBuilderCommand(Unwrap(cb), Unwrap(pending)))
    /\ appended' = Append(appended, Unwrap(decl))
    /\ pending' = None
    /\ decl' = None
    /\ UNCHANGED <<agg, request, invoked, ret, given>>
    /\ UNCHANGED <<nameVars, pushVars, dbVars, stateVars>>

\* builder.build(): the builder is consumed; the chain holds no Builder that
\* was not handed to command.
Build ==
    /\ IsSome(cb)
    /\ pending = None
    /\ agg' = Some(CommandBuilderBuild(Unwrap(cb)))
    /\ cb' = None
    /\ UNCHANGED <<pending, decl, appended, request, invoked, ret, given>>
    /\ UNCHANGED <<nameVars, pushVars, dbVars, stateVars>>

\* The dispatcher runs the routine registered under a phrase.
Dispatch(p, line, outcome) ==
    /\ IsSome(agg)
    /\ p \in DOMAIN Unwrap(agg).executor
    /\ LET done == RoutineCall(Unwrap(agg).executor[p], line.args, line.props,
                               outcome)
       IN  /\ invoked' = done.calls
           /\ ret' = Some(done.ret)
    /\ request' = Some([phrase |-> p, args |-> line.args, props |-> line.props,
                        outcome |-> outcome])
    /\ UNCHANGED <<cb, pending, decl, appended, agg, given>>
    /\ UNCHANGED <<nameVars, pushVars, dbVars, stateVars>>

Phrases == {TypeNamePhrase(h) : h \in HandlerFns}

Next ==
    \/ \E h \in HandlerFns : New(h)
    \/ \E a \in ArgPool : Arg(a)
    \/ \E properties \in SeqsOf(PropertyPool, 0, MaxProps) : Properties(properties)
    \/ Command
    \/ Build
    \/ \E p \in Phrases, line \in CommandLines, outcome \in HandlerOutcomes :
           Dispatch(p, line, outcome)

Spec == Init /\ [][Next]_vars

(***************************************************************************)
(* The question store: Sqlite::add_question and Sqlite::find_questions     *)
(***************************************************************************)

\* The tag texts in use.  A question's tags are drawn without repetition (the
\* type of Question.tags is declared outside these sources; a repeated tag
\* would only add a second question_tags row).
TagTexts == {"rust", "unsafe"}
TagLists == InjectiveSeqs(TagTexts, 0, MaxTags)
Filters == SeqsOf(TagTexts, 0, MaxFilter)

\* SELECT id FROM tags WHERE text = ?
TagId(tags, text) == CHOOSE i \in DOMAIN tags : tags[i] = text

\* The loop of add_question over question.tags: INSERT OR IGNORE INTO tags
\* (text is UNIQUE), look the tag's id up, INSERT INTO question_tags.
RECURSIVE AddTags(_, _, _)
AddTags(d, question_id, tags) ==
    IF tags = <<>> THEN d
    ELSE LET tag == Head(tags)
             withTag == IF tag \in Range(d.tags) THEN d.tags
                        ELSE Append(d.tags, tag)
             tag_id == TagId(withTag, tag)
         IN  AddTags([d EXCEPT !.tags = withTag,
                               !.question_tags = Append(@, <<question_id, tag_id>>)],
                     question_id, Tail(tags))

\* Sqlite::add_question: a row of questions (its id is its rowid, the next
\* integer), then the tags.  The row's text columns play no part in a query.
AddQuestion(d, question) ==
    LET inserted == [d EXCEPT !.questions =
                         Append(@, [id |-> Len(d.questions) + 1,
                                    description |-> question.description])]
        question_id == Len(inserted.questions)   \* conn.last_insert_rowid()
    IN  AddTags(inserted, question_id, question.tags)

\* fn placeholders(n): n times "?", joined with ","
Placeholders(n) == Join([i \in 1..n |-> <<"?">>], <<",">>)

\* The number of parameters a clause binds: its "?" characters.
Marks(text) == Cardinality({i \in DOMAIN text : text[i] = "?"})

\* The query find_questions writes, as the clauses that follow the two joins:
\* "WHERE t.text IN (..)" when has_tags is not empty, "AND t.text NOT IN (..)"
\* when no_tags is not empty.  Without the WHERE line the AND line continues
\* the last join's ON condition, which selects the same rows of an inner join.
Query(has_tags, no_tags) ==
    [in |-> IF has_tags # <<>> THEN Some(Placeholders(Len(has_tags))) ELSE None,
     notIn |-> IF no_tags # <<>> THEN Some(Placeholders(Len(no_tags))) ELSE None]

\* The rows of questions JOIN question_tags JOIN tags the query selects, one
\* per question_tags row whose tag passes both clauses, counted per question:
\* the result is kept as a bag, the query fixing no order (no ORDER BY).
\* The statement fails when the parameters bound differ in number from its
\* placeholders.
FindQuestions(d, has_tags, no_tags) ==
    LET query == Query(has_tags, no_tags)
        tags == has_tags \o no_tags   \* tags.extend(no_tags)
        nIn == IF IsSome(query.in) THEN Marks(Unwrap(query.in)) ELSE 0
        nNotIn == IF IsSome(query.notIn) THEN Marks(Unwrap(query.notIn)) ELSE 0
        inValues == {tags[i] : i \in 1..nIn}
        notInValues == {tags[i] : i \in (nIn + 1)..(nIn + nNotIn)}
        Selected(row) ==
            /\ IsSome(query.in) => d.tags[row[2]] \in inValues
            /\ IsSome(query.notIn) => d.tags[row[2]] \notin notInValues
        Count(q) == Cardinality({i \in DOMAIN d.question_tags :
                                     /\ d.question_tags[i][1] = q
                                     /\ Selected(d.question_tags[i])})
        returned == {q \in DOMAIN d.questions : Count(q) > 0}
    IN  IF nIn + nNotIn # Len(tags)
        THEN [ok |-> FALSE]
        ELSE [ok |-> TRUE, rows |-> [q \in returned |-> Count(q)]]

InitDb ==
    /\ db = EmptyDb   \* Sqlite::memory(): the three tables, empty
    /\ listed = None
    /\ lastOp = "new"
    /\ NameIdle /\ PushIdle /\ RegistryIdle /\ StateIdle

\* db.add_question(question)
Add(tags) ==
    /\ Len(db.questions) < MaxQuestions
    /\ db' = AddQuestion(db, [description |-> "text", tags |-> tags])
    /\ lastOp' = "add_question"
    /\ UNCHANGED <<listed, nameVars, pushVars, registryVars, stateVars>>

\* commands::questions_list: every row find_questions returns is printed.
QuestionsList(has_tags, no_tags) ==
    /\ listed' = Some([has_tags |-> has_tags, no_tags |-> no_tags,
                       found |-> FindQuestions(db, has_tags, no_tags)])
    /\ lastOp' = "questions_list"
    /\ UNCHANGED <<db, nameVars, pushVars, registryVars, stateVars>>

NextDb ==
    \/ \E tags \in TagLists : Add(tags)
    \/ \E has_tags \in Filters, no_tags \in Filters :
           QuestionsList(has_tags, no_tags)

SpecDb == InitDb /\ [][NextDb]_vars

(***************************************************************************)
(* State: the shared RawState and its question cache                       *)
(***************************************************************************)

\* State::new: one RawState, its cache empty, and the State pointing to it.
StateNew == [handles |-> <<1>>, raws |-> <<[cache |-> None]>>]

\* A slip of Clone: the RawState is copied and the clone points to the copy.
StateCloneDeep(hs, rs, h) ==
    [handles |-> Append(hs, Len(rs) + 1), raws |-> Append(rs, rs[hs[h]])]

\* #[derive(Clone)] on State: Rc::clone, one more pointer to the RawState.
StateClone(hs, rs, h) == [handles |-> Append(hs, hs[h]), raws |-> rs]

\* A slip of State::questions: the cached list is only used when the query
\* fails.
StateQuestionsRequery(raw, found) ==
    IF found.ok
    THEN [raw |-> [raw EXCEPT !.cache = Some(found.rows)],
          ret |-> [ok |-> TRUE, rows |-> found.rows], queried |-> TRUE]
    ELSE IF IsSome(raw.cache)
    THEN [raw |-> raw, ret |-> [ok |-> TRUE, rows |-> Unwrap(raw.cache)],
          queried |-> TRUE]
    ELSE [raw |-> raw, ret |-> [ok |-> FALSE], queried |-> TRUE]

\* State::questions on the RawState raw; found is what find_questions returns
\* if it is called.
StateQuestions(raw, found) ==
    IF IsSome(raw.cache)
    THEN \* Some(questions) => Ok(questions.clone())
         [raw |-> raw, ret |-> [ok |-> TRUE, rows |-> Unwrap(raw.cache)],
          queried |-> FALSE]
    ELSE IF ~found.ok
    THEN \* find_questions(..)? returns the error
         [raw |-> raw, ret |-> [ok |-> FALSE], queried |-> TRUE]
    ELSE \* cache.insert(questions.clone()); Ok(questions)
         [raw |-> [raw EXCEPT !.cache = Some(found.rows)],
          ret |-> [ok |-> TRUE, rows |-> found.rows], queried |-> TRUE]

InitState ==
    /\ db = EmptyDb
    /\ listed = None
    /\ lastOp = "new"
    /\ handles = StateNew.handles
    /\ raws = StateNew.raws
    /\ answer = None /\ queried = FALSE /\ firstOk = None
    /\ NameIdle /\ PushIdle /\ RegistryIdle

\* A question is added to the database the State holds.
AddToState(tags) ==
    /\ Len(db.questions) < MaxQuestions
    /\ db' = AddQuestion(db, [description |-> "text", tags |-> tags])
    /\ lastOp' = "add_question"
    /\ UNCHANGED <<listed, handles, raws, answer, queried, firstOk>>
    /\ UNCHANGED <<nameVars, pushVars, registryVars>>

\* state.clone()
Clone(h) ==
    /\ Len(handles) < 1 + MaxClones
    /\ LET cloned == StateClone(handles, raws, h)
       IN  /\ handles' = cloned.handles
           /\ raws' = cloned.raws
    /\ lastOp' = "clone"
    /\ UNCHANGED <<db, listed, answer, queried, firstOk>>
    /\ UNCHANGED <<nameVars, pushVars, registryVars>>

\* handle.questions(has_tags, no_tags); with fails the connection refuses
\* the query (a database without the tables, an I/O error).
Questions(h, has_tags, no_tags, fails) ==
    LET found == IF fails THEN [ok |-> FALSE]
                 ELSE FindQuestions(db, has_tags, no_tags)
        done == StateQuestions(raws[handles[h]], found)
    IN  /\ raws' = [raws EXCEPT ![handles[h]] = done.raw]
        /\ answer' = Some(done.ret)
        /\ queried' = done.queried
        /\ firstOk' = IF firstOk = None /\ done.ret.ok
                      THEN Some(done.ret.rows) ELSE firstOk
        /\ lastOp' = "questions"
        /\ UNCHANGED <<db, listed, handles>>
        /\ UNCHANGED <<nameVars, pushVars, registryVars>>

NextState ==
    \/ \E tags \in TagLists : AddToState(tags)
    \/ \E h \in DOMAIN handles : Clone(h)
    \/ \E h \in DOMAIN handles, has_tags \in Filters, no_tags \in Filters,
          fails \in BOOLEAN :
           Questions(h, has_tags, no_tags, fails)

SpecState == InitState /\ [][NextState]_vars

\* The text after the last "::" of a name (all of it without one), the text
\* with '.' for every '_', and the phrases the documentation gives.
AfterLastSeparator(name) ==
    LET seps == {i \in 1..(Len(name) - 1) : name[i] = ":" /\ name[i + 1] = ":"}
    IN  IF seps = {} THEN name
        ELSE LET i == CHOOSE k \in seps : \A j \in seps : j <= k
             IN  SubSeq(name, i + 2, Len(name))

Dotted(s) == [i \in 1..Len(s) |-> IF s[i] = "_" THEN "." ELSE s[i]]

DocumentedPhrase(name) ==
    IF name = NameExport THEN PhraseExport
    ELSE IF name = NameQuestionsAbout THEN PhraseQuestionsAbout
    ELSE PhraseQuestionsList

\* C4: for every type name, the phrase Builder::new derives is the text after
\* the last path separator "::" (the whole name when it has none) with every
\* '_' replaced by '.', which is that text split on '_' and joined with '.';
\* export gives export, questions_list gives questions.list, questions_about
\* gives questions.about and crate::commands::questions_list gives
\* questions.list.
C4_PhraseDerivation ==
    IsSome(phrase) =>
        /\ Unwrap(phrase) = Dotted(AfterLastSeparator(ident))
        /\ ident \in DocumentedNames => Unwrap(phrase) = DocumentedPhrase(ident)

\* A qualified name with an underscore in its last segment has been converted.
C4_Witness ==
    /\ IsSome(phrase)
    /\ ident = NameQualified
    /\ Unwrap(phrase) = PhraseQuestionsList

\* How many slots of array hold the element m.
Occurrences(array, m) == Cardinality({i \in DOMAIN array : array[i] = m})

\* C3: array_push(this, item) returns an array of N + 1 elements whose first N
\* slots hold the elements of this in their order and whose last slot holds
\* item, and every one of these elements occurs in it exactly once.
C3_ArrayPush ==
    IsSome(pushed) =>
        LET out == Unwrap(pushed)
            N == Len(this)
        IN  /\ DOMAIN out = 1..(N + 1)
            /\ \A i \in 1..N : out[i] = this[i]
            /\ out[N + 1] = Unwrap(item)
            /\ \A m \in Range(this) \cup {Unwrap(item)} : Occurrences(out, m) = 1
            /\ Range(out) = Range(this) \cup {Unwrap(item)}

\* An array of the largest size has been grown by one.
C3_Witness ==
    /\ IsSome(pushed)
    /\ Len(this) = MaxLen
    /\ Len(Unwrap(pushed)) = MaxLen + 1

\* The phrase of the i-th command handed to command, and whether the phrases
\* of the commands handed to command so far differ pairwise.
AppendedPhrase(i) == TypeNamePhrase(appended[i].handler)
PhrasesDistinct ==
    \A i, j \in DOMAIN appended : AppendedPhrase(i) = AppendedPhrase(j) => i = j

\* Slot i of commands and slot i of handlers belong to the i-th command call.
Paired(builder) ==
    /\ Len(builder.commands) = Len(appended)
    /\ Len(builder.handlers) = Len(appended)
    /\ \A i \in DOMAIN appended :
           /\ builder.commands[i].phrase = AppendedPhrase(i)
           /\ builder.handlers[i][1] = AppendedPhrase(i)
           /\ builder.handlers[i][2].handler = appended[i].handler

\* C1 (as amended): after N calls of command and build, the descriptor list
\* has N entries, the i-th being the i-th appended command's, and the table
\* has one entry per distinct phrase, bound to a handler appended under that
\* phrase: exactly N entries, the i-th phrase bound to the i-th handler, when
\* the N phrases differ pairwise (so none for N = 0).  Before build, slot i of
\* the descriptors and slot i of the handlers hold the same command.
C1_TableMatchesAppends ==
    /\ IsSome(cb) => Paired(Unwrap(cb))
    /\ IsSome(agg) =>
           LET table == Unwrap(agg)
               N == Len(appended)
           IN  /\ Len(table.grammar) = N
               /\ \A i \in 1..N : table.grammar[i].phrase = AppendedPhrase(i)
               /\ DOMAIN table.executor = {AppendedPhrase(i) : i \in 1..N}
               /\ \A p \in DOMAIN table.executor :
                      \E i \in 1..N :
                          /\ AppendedPhrase(i) = p
                          /\ table.executor[p].handler = appended[i].handler
               /\ PhrasesDistinct =>
                      /\ Cardinality(DOMAIN table.executor) = N
                      /\ \A i \in 1..N :
                             table.executor[AppendedPhrase(i)].handler
                                 = appended[i].handler

\* Two commands of different phrases have been appended and built.
C1_Witness ==
    /\ IsSome(agg)
    /\ Len(appended) = 2
    /\ PhrasesDistinct
    /\ Cardinality(DOMAIN Unwrap(agg).executor) = 2

\* C1 as stated: after N calls of command and build the table has exactly N
\* phrase entries, the i-th descriptor and the i-th handler being the i-th
\* appended command's.
C1_ExactlyNPhrases ==
    IsSome(agg) =>
        LET table == Unwrap(agg)
            N == Len(appended)
        IN  /\ Len(table.grammar) = N
            /\ Cardinality(DOMAIN table.executor) = N
            /\ \A i \in 1..N :
                   /\ table.grammar[i].phrase = AppendedPhrase(i)
                   /\ table.executor[AppendedPhrase(i)].handler
                          = appended[i].handler

\* C2: in every builder state the descriptors and the handlers both number N,
\* the calls of command made so far (0 after with_state), and a call of
\* command can always be made on a Builder, whatever its phrase.
C2_SizeIsAppendCount ==
    /\ IsSome(cb) =>
           /\ Len(Unwrap(cb).commands) = Len(appended)
           /\ Len(Unwrap(cb).handlers) = Len(appended)
    /\ (IsSome(cb) /\ IsSome(pending)) => ENABLED Command

\* The builder holds two commands of one phrase.
C2_Witness ==
    /\ IsSome(cb)
    /\ Len(Unwrap(cb).commands) = 2
    /\ Unwrap(cb).commands[1].phrase = Unwrap(cb).commands[2].phrase

\* C5: a step of the build leaves every descriptor and every handler already
\* in the builder as it was, in its slot (command only adds one after them),
\* and a call of arg or properties changes nothing of the builder at all: it
\* acts on the command being declared alone.
C5_EarlierCommandsUnchanged ==
    [][/\ (IsSome(cb) /\ IsSome(cb')) =>
              LET old == Unwrap(cb)
                  new == Unwrap(cb')
              IN  /\ Len(new.commands) >= Len(old.commands)
                  /\ Len(new.handlers) >= Len(old.handlers)
                  /\ \A i \in DOMAIN old.commands :
                         new.commands[i] = old.commands[i]
                  /\ \A i \in DOMAIN old.handlers :
                         new.handlers[i] = old.handlers[i]
       /\ (IsSome(decl) /\ IsSome(decl') /\ decl' # decl) =>
              /\ cb' = cb
              /\ Unwrap(pending').handler = Unwrap(pending).handler
              /\ Unwrap(pending').command.phrase = Unwrap(pending).command.phrase
      ]_vars

\* A declaration has been made for a command while the builder holds an
\* earlier one that has declarations of its own.
C5_Witness ==
    /\ IsSome(cb)
    /\ Len(Unwrap(cb).commands) >= 1
    /\ Len(Unwrap(cb).commands[1].subjects) = 1
    /\ IsSome(pending)
    /\ Unwrap(decl).used >= 1

\* C6: a dispatched routine has invoked its handler exactly once, with the
\* state handed to with_state and the arguments and properties it received;
\* it returns Ok when the handler did, and otherwise one error carrying the
\* formatted report.
C6_AdapterCallsOnce ==
    IsSome(request) =>
        LET r == Unwrap(request)
        IN  /\ Len(invoked) = 1
            /\ invoked[1].state = given
            /\ invoked[1].args = r.args
            /\ invoked[1].props = r.props
            /\ TypeNamePhrase(invoked[1].handler) = r.phrase
            /\ invoked[1].handler \in {appended[i].handler : i \in DOMAIN appended}
            /\ r.outcome.ok => Unwrap(ret) = [ok |-> TRUE]
            /\ ~r.outcome.ok =>
                   /\ ~Unwrap(ret).ok
                   /\ Unwrap(ret).error
                          = [message |-> <<r.outcome.report[1], ": ",
                                           r.outcome.report[2]>>]

\* A handler has failed and the routine has returned the error.
C6_Witness ==
    /\ IsSome(request)
    /\ ~Unwrap(request).outcome.ok
    /\ IsSome(ret)
    /\ ~Unwrap(ret).ok

\* The descriptor command is what the declarations d describe; and the
\* declarations of export with its one argument.
Describes(command, d) ==
    /\ command.phrase = TypeNamePhrase(d.handler)
    /\ command.subjects
           = [j \in 1..Len(d.args) |->
                  [hint |-> d.args[j].hint, kind |-> d.args[j].tag,
                   optional |-> FALSE]]
    /\ DOMAIN command.properties = d.names
    /\ \A n \in d.names : command.properties[n].optional = TRUE

ExportWithPath ==
    [handler |-> FnExport, args |-> <<[hint |-> "path", tag |-> "Path"]>>,
     names |-> {}, used |-> 1]

\* C7: a descriptor lists the positional arguments in the order of the arg
\* calls, each with its hint and type tag and not optional, and holds one
\* optional entry per distinct property name declared; export appended with
\* one arg("path", Path) and built gives the one phrase export, whose
\* descriptor has exactly one positional argument, of hint "path".
C7_DescriptorMatchesDeclarations ==
    /\ IsSome(pending) => Describes(Unwrap(pending).command, Unwrap(decl))
    /\ IsSome(cb) =>
           \A i \in DOMAIN appended :
               Describes(Unwrap(cb).commands[i], appended[i])
    /\ IsSome(agg) =>
           \A i \in DOMAIN appended :
               Describes(Unwrap(agg).grammar[i], appended[i])
    /\ (IsSome(agg) /\ appended = <<ExportWithPath>>) =>
           /\ DOMAIN Unwrap(agg).executor = {PhraseExport}
           /\ Len(Unwrap(agg).grammar) = 1
           /\ Unwrap(agg).grammar[1].phrase = PhraseExport
           /\ Len(Unwrap(agg).grammar[1].subjects) = 1
           /\ Unwrap(agg).grammar[1].subjects[1].hint = "path"

\* export has been appended with its one argument and built.
C7_Witness ==
    /\ IsSome(agg)
    /\ appended = <<ExportWithPath>>
    /\ Len(Unwrap(agg).grammar[1].subjects) = 1

\* The tags a question carries: the texts its question_tags rows point to.
TagsOf(d, q) ==
    {d.tags[d.question_tags[i][2]] :
         i \in {j \in DOMAIN d.question_tags : d.question_tags[j][1] = q}}

\* C8: questions_list without tag filters prints every question of the
\* database exactly once, whatever the number of its tags, and nothing for an
\* empty database.
C8_ListsEveryQuestionOnce ==
    (/\ lastOp = "questions_list"
     /\ Unwrap(listed).has_tags = <<>>
     /\ Unwrap(listed).no_tags = <<>>) =>
        LET found == Unwrap(listed).found
        IN  /\ found.ok
            /\ DOMAIN found.rows = DOMAIN db.questions
            /\ \A q \in DOMAIN db.questions : found.rows[q] = 1

\* C9: find_questions succeeds for every database and every has_tags and
\* no_tags, and returns no question that carries a tag listed in no_tags.
C9_NoExcludedTagReturned ==
    lastOp = "questions_list" =>
        LET call == Unwrap(listed)
        IN  /\ call.found.ok
            /\ \A q \in DOMAIN call.found.rows :
                   TagsOf(db, q) \cap Range(call.no_tags) = {}

\* The cache of the RawState every live State points to.
CachesOf(hs, rs) == {rs[hs[h]].cache : h \in DOMAIN hs}

\* C10: once a call of State::questions has succeeded, every later call on
\* the State or a clone of it returns the list that call stored, without a
\* query, whatever its has_tags and no_tags and whatever the database holds
\* by then; before that, a call queries the database, a failed call returns
\* the error and leaves the cache empty, and a successful one stores its list.
\* No other operation touches the cache.
C10_QuestionsMemoized ==
    [][/\ (lastOp' = "questions" /\ IsSome(firstOk)) =>
              /\ answer' = Some([ok |-> TRUE, rows |-> Unwrap(firstOk)])
              /\ ~queried'
              /\ firstOk' = firstOk
              /\ CachesOf(handles', raws') = {firstOk}
       /\ (lastOp' = "questions" /\ firstOk = None) =>
              /\ queried'
              /\ IF Unwrap(answer').ok
                 THEN /\ firstOk' = Some(Unwrap(answer').rows)
                      /\ CachesOf(handles', raws') = {firstOk'}
                 ELSE /\ firstOk' = None
                      /\ CachesOf(handles', raws') = {None}
       /\ lastOp' # "questions" =>
              /\ CachesOf(handles', raws') = CachesOf(handles, raws)
              /\ firstOk' = firstOk
      ]_vars

\* A clone has been answered from the cache with a list that is no longer
\* what the database holds.
C10_Witness ==
    /\ lastOp = "questions"
    /\ IsSome(firstOk)
    /\ ~queried
    /\ Len(handles) = 2
    /\ answer = Some([ok |-> TRUE, rows |-> Unwrap(firstOk)])
    /\ FindQuestions(db, <<>>, <<>>).rows # Unwrap(firstOk)

====
